---- MODULE Spec2Model ----
(***************************************************************************)
(* Model of KaliAssistant (src/kali_conversational_assistant.py): the      *)
(* bounded conversation context, the command safety gate, the command      *)
(* executor and the per-turn control flow of handle_query.                 *)
(*                                                                         *)
(* Text is a sequence of one-character strings, so that strip(), lower(),  *)
(* slicing, substring tests and the regular expressions of the source are  *)
(* computed character by character.  The character U+0060 (backquote) is   *)
(* written "BQ", because the lexer does not accept it inside a string.     *)
(***************************************************************************)
EXTENDS Integers, Sequences, FiniteSets, TLC

(***************************************************************************)
(* Bounds of the model.                                                    *)
(***************************************************************************)
MaxTurns == 2

(***************************************************************************)
(* Python str operations.                                                  *)
(***************************************************************************)
UpperChars == <<"A", "B", "C", "D", "E", "F", "G", "H", "I", "J", "K", "L", "M", "N", "O", "P", "Q", "R", "S", "T", "U", "V", "W", "X", "Y", "Z">>

LowerChars == <<"a", "b", "c", "d", "e", "f", "g", "h", "i", "j", "k", "l", "m", "n", "o", "p", "q", "r", "s", "t", "u", "v", "w", "x", "y", "z">>

\* str.isspace() for one character, also the class \s of the re module
Whitespace == {" ", "\t", "\n", "\r", "\f"}

lower_char(c) ==
  IF \E i \in 1..26 : UpperChars[i] = c
  THEN LowerChars[CHOOSE i \in 1..26 : UpperChars[i] = c]
  ELSE c

\* str.lower()
lower(s) == [i \in 1..Len(s) |-> lower_char(s[i])]

\* s[a:b] for 0 <= a, 0 <= b (Python's 0-based half-open slice)
slice(s, a, b) ==
  LET hi == IF b < Len(s) THEN b ELSE Len(s)
  IN  IF a >= hi THEN <<>> ELSE SubSeq(s, a + 1, hi)

\* str.strip(): drop leading and trailing whitespace
strip(s) ==
  LET keep == {i \in 1..Len(s) : s[i] \notin Whitespace}
  IN  IF keep = {} THEN <<>>
      ELSE SubSeq(s, CHOOSE i \in keep : \A j \in keep : i <= j,
                     CHOOSE i \in keep : \A j \in keep : j <= i)

\* s.startswith(p)
startswith(s, p) == Len(p) <= Len(s) /\ SubSeq(s, 1, Len(p)) = p

\* p occurs in s at 1-based position i
occurs_at(s, p, i) == i >= 1 /\ i + Len(p) - 1 <= Len(s) /\ SubSeq(s, i, i + Len(p) - 1) = p

\* the Python test "p in s"
contains(s, p) == \E i \in 1..(Len(s) + 1) : occurs_at(s, p, i)

Digits == <<"0", "1", "2", "3", "4", "5", "6", "7", "8", "9">>

RECURSIVE nat_str(_)
nat_str(n) == IF n < 10 THEN <<Digits[n + 1]>> ELSE nat_str(n \div 10) \o <<Digits[(n % 10) + 1]>>

\* str(n) for an int, as the f-strings format it
int_str(n) == IF n < 0 THEN <<"-">> \o nat_str(0 - n) ELSE nat_str(n)

RECURSIVE join(_, _)
\* sep.join(parts)
join(sep, parts) ==
  IF Len(parts) = 0 THEN <<>>
  ELSE IF Len(parts) = 1 THEN parts[1]
  ELSE parts[1] \o sep \o join(sep, Tail(parts))

(***************************************************************************)
(* The fragment of the re module that danger_patterns and _extract_command *)
(* use.  A pattern is a sequence of items [cs, neg, q]: a character class  *)
(* cs (complemented when neg), with quantifier q in {"one","plus","star"}. *)
(***************************************************************************)
lit(c) == [cs |-> {c}, neg |-> FALSE, q |-> "one"]

lits(s) == [i \in 1..Len(s) |-> lit(s[i])]

\* \s+
ws_plus == <<[cs |-> Whitespace, neg |-> FALSE, q |-> "plus"]>>

\* \s*
ws_star == <<[cs |-> Whitespace, neg |-> FALSE, q |-> "star"]>>

\* .* without re.DOTALL: any character but the newline
dot_star == <<[cs |-> {"\n"}, neg |-> TRUE, q |-> "star"]>>

\* variant: the patterns are matched without re.IGNORECASE
item_match_case_sensitive(it, c) == (c \in it.cs) # it.neg

\* one character against one item under re.IGNORECASE
item_match(it, c) == ((c \in it.cs) \/ (lower_char(c) \in it.cs)) # it.neg

RECURSIVE match_at(_, _, _, _)
\* items k.. of pattern re match a prefix of text[i..]
match_at(re, k, text, i) ==
  IF k > Len(re) THEN TRUE
  ELSE LET it == re[k]
           here == i <= Len(text) /\ item_match(it, text[i])
       IN  CASE it.q = "one"  -> here /\ match_at(re, k + 1, text, i + 1)
             [] it.q = "plus" -> here /\ (match_at(re, k + 1, text, i + 1) \/ match_at(re, k, text, i + 1))
             [] it.q = "star" -> match_at(re, k + 1, text, i) \/ (here /\ match_at(re, k, text, i + 1))

\* re.search(re, text, re.IGNORECASE) is not None
re_search(re, text) == \E i \in 1..(Len(text) + 1) : match_at(re, 1, text, i)

(***************************************************************************)
(* KaliAssistant: configuration.                                           *)
(***************************************************************************)
default_config ==
  [api         |-> [ollama_endpoint |-> "http://localhost:11434/api/chat", timeout |-> 30],
   personality |-> [name |-> "Kali-Assist", tone |-> "professional", verbosity |-> "detailed"],
   security    |-> [require_confirmation |-> TRUE, max_output |-> 5000, timeout |-> 45],
   context     |-> [memory_size |-> 10]]

\* {**default_config, **json.load(f)}: a file is absent, unparsable, or a
\* dict from section names to dicts; the union replaces whole sections
load_config(file) ==
  IF file.kind = "dict"
  THEN [s \in (DOMAIN default_config) \cup (DOMAIN file.data) |->
          IF s \in DOMAIN file.data THEN file.data[s] ELSE default_config[s]]
  ELSE default_config

(***************************************************************************)
(* KaliAssistant: the conversation context.                                *)
(***************************************************************************)
\* the system turn that __init__ appends
system_turn(meta) ==
  [role    |-> "system",
   content |-> <<"Y", "o", "u", " ", "a", "r", "e", " ", "a", "n", " ", "a", "d", "v", "a", "n", "c", "e", "d", " ", "A", "I", " ", "a", "s", "s", "i", "s", "t", "a", "n", "t", " ", "r", "u", "n", "n", "i", "n", "g", " ", "i", "n", " ", "K", "a", "l", "i", " ", "L", "i", "n", "u", "x", ".", " ", "T", "o", "d", "a", "y", " ", "i", "s", " ">> \o meta.session_start
               \o <<".", " ", "U", "s", "e", "r", ":", " ">> \o meta.user_name \o <<".", " ", "S", "y", "s", "t", "e", "m", ":", " ">> \o meta.platform \o <<".", " ">>
               \o <<"Y", "o", "u", " ", "c", "a", "n", " ", "h", "e", "l", "p", " ", "w", "i", "t", "h", " ", "s", "e", "c", "u", "r", "i", "t", "y", " ", "t", "e", "s", "t", "i", "n", "g", ",", " ", "L", "i", "n", "u", "x", " ", "a", "d", "m", "i", "n", "i", "s", "t", "r", "a", "t", "i", "o", "n", ",", " ", "c", "o", "d", "i", "n", "g", ",", " ", "a", "n", "d", " ", "g", "e", "n", "e", "r", "a", "l", " ", "q", "u", "e", "s", "t", "i", "o", "n", "s", ".", " ">>
               \o <<"W", "h", "e", "n", " ", "a", "p", "p", "r", "o", "p", "r", "i", "a", "t", "e", ",", " ", "g", "e", "n", "e", "r", "a", "t", "e", " ", "a", "n", "d", " ", "e", "x", "e", "c", "u", "t", "e", " ", "c", "o", "m", "m", "a", "n", "d", "s", ".", " ", "A", "l", "w", "a", "y", "s", " ", "m", "a", "i", "n", "t", "a", "i", "n", " ", "a", " ", "h", "e", "l", "p", "f", "u", "l", ",", " ", "p", "r", "o", "f", "e", "s", "s", "i", "o", "n", "a", "l", " ", "t", "o", "n", "e", ".", " ">>
               \o <<"F", "o", "r", " ", "s", "e", "c", "u", "r", "i", "t", "y", " ", "t", "o", "o", "l", "s", ",", " ", "p", "r", "o", "v", "i", "d", "e", " ", "c", "o", "n", "t", "e", "x", "t", " ", "a", "n", "d", " ", "e", "x", "p", "l", "a", "n", "a", "t", "i", "o", "n", "s", ".">>]

\* lst[-m:] for m >= 0 (the slice from index -0 is the whole list)
last_slice(lst, m) ==
  IF m = 0 \/ m >= Len(lst) THEN lst ELSE SubSeq(lst, Len(lst) - m + 1, Len(lst))

\* _add_to_history: the new context, and whether the lookup of
\* config["context"]["memory_size"] raised KeyError (after the append)
add_to_history(ctx, cfg, role, content) ==
  LET appended == Append(ctx, [role |-> role, content |-> content])
  IN  IF "memory_size" \notin DOMAIN cfg.context
      THEN [context |-> appended, raised |-> TRUE]
      ELSE IF Len(appended) > cfg.context.memory_size + 1
      THEN [context |-> <<appended[1]>> \o last_slice(appended, cfg.context.memory_size), raised |-> FALSE]
      ELSE [context |-> appended, raised |-> FALSE]

(***************************************************************************)
(* KaliAssistant: the safety gate.                                         *)
(***************************************************************************)
danger_patterns ==
  << lits(<<"r", "m">>) \o ws_plus \o lits(<<"-", "r", "f">>) \o ws_plus,
     lits(<<"d", "d">>) \o ws_plus \o lits(<<"i", "f", "=">>),
     lits(<<">">>) \o ws_star \o lits(<<"/", "d", "e", "v", "/", "s", "d">>),
     lits(<<"c", "h", "m", "o", "d">>) \o ws_plus \o lits(<<"7", "7", "7">>) \o ws_plus,
     lits(<<":", "(", ")", "{">>) \o dot_star \o lits(<<";", "}", ";">>),
     lits(<<"m", "v">>) \o ws_plus \o lits(<<"/">>) \o ws_star,
     lits(<<"f", "d", "i", "s", "k">>) \o ws_plus \o lits(<<"/", "d", "e", "v", "/">>),
     lits(<<"f", "o", "r", "m", "a", "t">>) \o ws_plus >>

\* the loop over danger_patterns
is_dangerous(command) ==
  \E p \in 1..Len(danger_patterns) : re_search(danger_patterns[p], command)

\* variant: the confirmation setting is consulted before the patterns
is_safe_check_confirm_first(cfg, command) ==
  IF "require_confirmation" \notin DOMAIN cfg.security THEN "KeyError"
  ELSE IF ~cfg.security.require_confirmation THEN "True"
  ELSE IF is_dangerous(command) THEN "False"
  ELSE "ask"

\* variant: the prompt is shown whatever require_confirmation says
is_safe_check_always_ask(cfg, command) ==
  IF is_dangerous(command) THEN "False"
  ELSE IF "require_confirmation" \notin DOMAIN cfg.security THEN "KeyError"
  ELSE "ask"

\* _is_safe up to the prompt: "False" (pattern matched), "True" (no
\* confirmation required), "ask" (the prompt is shown) or "KeyError"
is_safe_check(cfg, command) ==
  IF is_dangerous(command) THEN "False"
  ELSE IF "require_confirmation" \notin DOMAIN cfg.security THEN "KeyError"
  ELSE IF cfg.security.require_confirmation THEN "ask"
  ELSE "True"

\* variant: the answer is lower-cased but not stripped
is_safe_answer_no_strip(ask) ==
  IF ask.kind = "line"
  THEN IF lower(ask.text) = <<"y">> THEN "True" ELSE "False"
  ELSE ask.kind

\* input(...).strip().lower() == "y"; input() returns a line or raises
is_safe_answer(ask) ==
  IF ask.kind = "line"
  THEN IF lower(strip(ask.text)) = <<"y">> THEN "True" ELSE "False"
  ELSE ask.kind

\* _is_safe as a whole, against the outcome the prompt has when it is shown
is_safe(cfg, command, ask) ==
  LET c == is_safe_check(cfg, command)
  IN  [asked |-> (c = "ask"), result |-> IF c = "ask" THEN is_safe_answer(ask) ELSE c]

(***************************************************************************)
(* KaliAssistant: the command executor.                                    *)
(***************************************************************************)
TruncationMarker == <<"\n", "\n", "[", "O", "U", "T", "P", "U", "T", " ", "T", "R", "U", "N", "C", "A", "T", "E", "D", "]">>

\* variant: the limit is applied from max_output characters on
truncate_at_limit(output, max_output) ==
  IF Len(output) >= max_output THEN slice(output, 0, max_output) \o TruncationMarker ELSE output

\* the output limit of _execute_command
truncate(output, max_output) ==
  IF Len(output) > max_output THEN slice(output, 0, max_output) \o TruncationMarker ELSE output

\* variant: a timeout is reported with exit code 0
run_result_timeout_ok(cfg, proc) ==
  CASE proc.kind = "completed" ->
         IF "max_output" \notin DOMAIN cfg.security
         THEN [output |-> <<"E", "x", "e", "c", "u", "t", "i", "o", "n", " ", "e", "r", "r", "o", "r", ":", " ", "'", "m", "a", "x", "_", "o", "u", "t", "p", "u", "t", "'">>, returncode |-> 1]
         ELSE [output |-> truncate(proc.stdout \o proc.stderr, cfg.security.max_output),
               returncode |-> proc.returncode]
    [] proc.kind = "TimeoutExpired" -> [output |-> <<"C", "o", "m", "m", "a", "n", "d", " ", "t", "i", "m", "e", "d", " ", "o", "u", "t">>, returncode |-> 0]
    [] OTHER -> [output |-> <<"E", "x", "e", "c", "u", "t", "i", "o", "n", " ", "e", "r", "r", "o", "r", ":", " ">> \o proc.message, returncode |-> 1]

\* the (output, returncode) pair of _execute_command once subprocess.run has
\* returned or raised
run_result(cfg, proc) ==
  CASE proc.kind = "completed" ->
         IF "max_output" \notin DOMAIN cfg.security
         THEN [output |-> <<"E", "x", "e", "c", "u", "t", "i", "o", "n", " ", "e", "r", "r", "o", "r", ":", " ", "'", "m", "a", "x", "_", "o", "u", "t", "p", "u", "t", "'">>, returncode |-> 1]
         ELSE [output |-> truncate(proc.stdout \o proc.stderr, cfg.security.max_output),
               returncode |-> proc.returncode]
    [] proc.kind = "TimeoutExpired" -> [output |-> <<"C", "o", "m", "m", "a", "n", "d", " ", "t", "i", "m", "e", "d", " ", "o", "u", "t">>, returncode |-> 1]
    [] OTHER -> [output |-> <<"E", "x", "e", "c", "u", "t", "i", "o", "n", " ", "e", "r", "r", "o", "r", ":", " ">> \o proc.message, returncode |-> 1]

NoCommand == [output |-> <<"N", "o", " ", "c", "o", "m", "m", "a", "n", "d", " ", "t", "o", " ", "e", "x", "e", "c", "u", "t", "e">>, returncode |-> 1]

Blocked == [output |-> <<"C", "o", "m", "m", "a", "n", "d", " ", "b", "l", "o", "c", "k", "e", "d", " ", "b", "y", " ", "s", "a", "f", "e", "t", "y", " ", "s", "y", "s", "t", "e", "m">>, returncode |-> 1]

NoTimeoutKey == [output |-> <<"E", "x", "e", "c", "u", "t", "i", "o", "n", " ", "e", "r", "r", "o", "r", ":", " ", "'", "t", "i", "m", "e", "o", "u", "t", "'">>, returncode |-> 1]

\* _execute_command up to the prompt or the spawn: "empty", "blocked",
\* "KeyError", "ask", or "run" (subprocess.run is reached)
execute_entry(safety, cfg, command) ==
  IF command = <<>> THEN "empty"
  ELSE IF ~safety THEN "run"
  ELSE LET c == is_safe_check(cfg, command)
       IN  CASE c = "False" -> "blocked"
             [] c = "True"  -> "run"
             [] OTHER       -> c

\* the arguments of subprocess.run are evaluated before the call: the
\* process is spawned only if config["security"]["timeout"] exists
can_spawn(cfg) == "timeout" \in DOMAIN cfg.security

(***************************************************************************)
(* KaliAssistant: command extraction.                                      *)
(***************************************************************************)
Fence == <<"BQ", "BQ", "BQ", "b", "a", "s", "h", "\n">>

FenceEnd == <<"\n", "BQ", "BQ", "BQ">>

None == [none |-> TRUE, text |-> <<>>]

Some(text) == [none |-> FALSE, text |-> text]

\* re.search(r'```bash\n(.*?)\n```', response, re.DOTALL): leftmost opening
\* fence that has a closing fence after it, shortest group
fence_starts(response) ==
  {i \in 1..Len(response) : occurs_at(response, Fence, i)
      /\ \E j \in (i + Len(Fence))..Len(response) : occurs_at(response, FenceEnd, j)}

fence_group(response) ==
  LET i == CHOOSE i \in fence_starts(response) : \A k \in fence_starts(response) : i <= k
      ends == {j \in (i + Len(Fence))..Len(response) : occurs_at(response, FenceEnd, j)}
      j == CHOOSE j \in ends : \A k \in ends : j <= k
  IN  SubSeq(response, i + Len(Fence), j - 1)

\* _extract_command
extract_command(response) ==
  IF contains(response, <<"BQ", "BQ", "BQ", "b", "a", "s", "h">>) /\ fence_starts(response) # {}
  THEN Some(strip(fence_group(response)))
  ELSE IF startswith(response, <<"$", " ">>) THEN Some(strip(slice(response, 2, Len(response))))
  ELSE None

(***************************************************************************)
(* KaliAssistant: the texts handle_query composes.                         *)
(***************************************************************************)
FallbackText == <<"I", " ", "e", "n", "c", "o", "u", "n", "t", "e", "r", "e", "d", " ", "a", "n", " ", "e", "r", "r", "o", "r", " ", "p", "r", "o", "c", "e", "s", "s", "i", "n", "g", " ", "y", "o", "u", "r", " ", "r", "e", "q", "u", "e", "s", "t", ".", " ", "P", "l", "e", "a", "s", "e", " ", "t", "r", "y", " ", "a", "g", "a", "i", "n", ".">>

ExitRequest == <<"E", "X", "I", "T", "_", "R", "E", "Q", "U", "E", "S", "T">>

\* str(b) for a bool
bool_str(b) == IF b THEN <<"T", "r", "u", "e">> ELSE <<"F", "a", "l", "s", "e">>

\* the reply to "toggle safety", from the flag after the flip
toggle_text(flag) ==
  <<"S", "a", "f", "e", "t", "y", " ", "c", "h", "e", "c", "k", "s", " ", "h", "a", "v", "e", " ", "b", "e", "e", "n", " ">> \o (IF flag THEN <<"E", "N", "A", "B", "L", "E", "D">> ELSE <<"D", "I", "S", "A", "B", "L", "E", "D">>) \o <<".">>

\* the reply to "system information", over get_system_info()
system_info_text(meta, ctx) ==
  <<"S", "y", "s", "t", "e", "m", " ", "I", "n", "f", "o", "r", "m", "a", "t", "i", "o", "n", ":", "\n">> \o
  join(<<"\n">>, << <<"s", "y", "s", "t", "e", "m", ":", " ">> \o meta.platform,
                  <<"u", "s", "e", "r", ":", " ">> \o meta.user_name,
                  <<"w", "s", "l", ":", " ">> \o bool_str(meta.is_wsl),
                  <<"r", "o", "o", "t", ":", " ">> \o bool_str(meta.is_root),
                  <<"s", "e", "s", "s", "i", "o", "n", "_", "s", "t", "a", "r", "t", ":", " ">> \o meta.session_start,
                  <<"c", "o", "n", "t", "e", "x", "t", "_", "s", "i", "z", "e", ":", " ">> \o int_str(Len(ctx) - 1) >>)

HistoryWidth == 60

\* the role of a turn as text
role_text(role) ==
  IF role = "system" THEN <<"s", "y", "s", "t", "e", "m">> ELSE IF role = "user" THEN <<"u", "s", "e", "r">> ELSE <<"a", "s", "s", "i", "s", "t", "a", "n", "t">>

\* the reply to "conversation history", over context[1:]
history_text(ctx) ==
  <<"R", "e", "c", "e", "n", "t", " ", "C", "o", "n", "v", "e", "r", "s", "a", "t", "i", "o", "n", " ", "H", "i", "s", "t", "o", "r", "y", ":", "\n">> \o
  join(<<"\n">>, [i \in 1..(Len(ctx) - 1) |->
     int_str(i) \o <<".", " ">> \o
     role_text(ctx[i + 1].role) \o <<":", " ">> \o
     slice(ctx[i + 1].content, 0, HistoryWidth) \o
     (IF Len(ctx[i + 1].content) > HistoryWidth THEN <<".", ".", ".">> ELSE <<>>)])

FollowUpWidth == 500

\* the system turn that records a command's result
follow_up(command, result) ==
  <<"C", "o", "m", "m", "a", "n", "d", " ", "e", "x", "e", "c", "u", "t", "e", "d", ":", "\n", "BQ", "BQ", "BQ", "b", "a", "s", "h", "\n">> \o command \o <<"\n", "BQ", "BQ", "BQ", "\n", "E", "x", "i", "t", " ", "c", "o", "d", "e", ":", " ">> \o int_str(result.returncode)
  \o <<"\n", "O", "u", "t", "p", "u", "t", ":", "\n">> \o slice(result.output, 0, FollowUpWidth)
  \o (IF Len(result.output) > FollowUpWidth THEN <<".", ".", ".">> ELSE <<>>)

\* variant: the two forms are exchanged
summary_exchanged(command, returncode) ==
  IF returncode # 0
  THEN <<"\n", "\n", "C", "o", "m", "m", "a", "n", "d", " ", "e", "x", "e", "c", "u", "t", "e", "d", " ", "s", "u", "c", "c", "e", "s", "s", "f", "u", "l", "l", "y", ":", "\n", "BQ", "BQ", "BQ", "b", "a", "s", "h", "\n">> \o command \o <<"\n", "BQ", "BQ", "BQ">>
  ELSE <<"\n", "\n", "C", "o", "m", "m", "a", "n", "d", " ", "f", "a", "i", "l", "e", "d", " ", "(", "e", "x", "i", "t", " ">> \o int_str(returncode) \o <<")", ":", "\n", "BQ", "BQ", "BQ", "b", "a", "s", "h", "\n">> \o command \o <<"\n", "BQ", "BQ", "BQ">>

\* variant: the failure form leaves the exit code out
summary_without_code(command, returncode) ==
  IF returncode = 0
  THEN <<"\n", "\n", "C", "o", "m", "m", "a", "n", "d", " ", "e", "x", "e", "c", "u", "t", "e", "d", " ", "s", "u", "c", "c", "e", "s", "s", "f", "u", "l", "l", "y", ":", "\n", "BQ", "BQ", "BQ", "b", "a", "s", "h", "\n">> \o command \o <<"\n", "BQ", "BQ", "BQ">>
  ELSE <<"\n", "\n", "C", "o", "m", "m", "a", "n", "d", " ", "f", "a", "i", "l", "e", "d", ":", "\n", "BQ", "BQ", "BQ", "b", "a", "s", "h", "\n">> \o command \o <<"\n", "BQ", "BQ", "BQ">>

\* the summary appended to the response
summary(command, returncode) ==
  IF returncode = 0
  THEN <<"\n", "\n", "C", "o", "m", "m", "a", "n", "d", " ", "e", "x", "e", "c", "u", "t", "e", "d", " ", "s", "u", "c", "c", "e", "s", "s", "f", "u", "l", "l", "y", ":", "\n", "BQ", "BQ", "BQ", "b", "a", "s", "h", "\n">> \o command \o <<"\n", "BQ", "BQ", "BQ">>
  ELSE <<"\n", "\n", "C", "o", "m", "m", "a", "n", "d", " ", "f", "a", "i", "l", "e", "d", " ", "(", "e", "x", "i", "t", " ">> \o int_str(returncode) \o <<")", ":", "\n", "BQ", "BQ", "BQ", "b", "a", "s", "h", "\n">> \o command \o <<"\n", "BQ", "BQ", "BQ">>

\* the intent checks of handle_query, in the order of the source
intent(text) ==
  LET low == lower(text)
  IN  IF contains(low, <<"t", "o", "g", "g", "l", "e", " ", "s", "a", "f", "e", "t", "y">>) THEN "toggle"
      ELSE IF contains(low, <<"s", "y", "s", "t", "e", "m", " ", "i", "n", "f", "o", "r", "m", "a", "t", "i", "o", "n">>) THEN "info"
      ELSE IF contains(low, <<"c", "o", "n", "v", "e", "r", "s", "a", "t", "i", "o", "n", " ", "h", "i", "s", "t", "o", "r", "y">>) THEN "history"
      ELSE IF contains(low, <<"e", "x", "i", "t">>) \/ contains(low, <<"q", "u", "i", "t">>) THEN "exit"
      ELSE "model"

\* lines 127-131: the request needs config["api"]["ollama_endpoint"] and
\* config["api"]["timeout"]; a missing key raises KeyError inside the try
request(cfg, outcome) ==
  IF "ollama_endpoint" \notin DOMAIN cfg.api THEN [kind |-> "fail", content |-> <<"'", "o", "l", "l", "a", "m", "a", "_", "e", "n", "d", "p", "o", "i", "n", "t", "'">>]
  ELSE IF "timeout" \notin DOMAIN cfg.api THEN [kind |-> "fail", content |-> <<"'", "t", "i", "m", "e", "o", "u", "t", "'">>]
  ELSE outcome

\* variant: a failed request yields an empty text
generate_text_empty_on_failure(outcome) ==
  IF outcome.kind = "ok" THEN strip(outcome.content) ELSE <<>>

\* _generate_response: the stripped content of the reply, or the fallback
\* text when the request or the decoding of the reply raises
generate_text(outcome) ==
  IF outcome.kind = "ok" THEN strip(outcome.content) ELSE FallbackText

(***************************************************************************)
(* Inputs of the model: what the environment can hand to the program.      *)
(***************************************************************************)
MaxMemorySize == 2

MaxMaxOutput == 2

MaxOutputLen == 3

\* the session metadata __init__ captures
Sessions ==
  {[user_name |-> <<"k", "a", "l", "i">>, platform |-> <<"L", "i", "n", "u", "x", "-", "6", ".", "1", "-", "a", "m", "d", "6", "4">>, is_wsl |-> FALSE, is_root |-> TRUE,
    session_start |-> <<"2", "0", "2", "4", "-", "0", "1", "-", "0", "1", " ", "0", "0", ":", "0", "0", ":", "0", "0">>]}

\* "context" sections a configuration file can supply
ContextSections ==
  {[memory_size |-> m] : m \in 0..MaxMemorySize} \cup {[k \in {} |-> 0]}

\* "security" sections a configuration file can supply
SecuritySections ==
  {[require_confirmation |-> b, max_output |-> k, timeout |-> 45] : b \in BOOLEAN, k \in 0..MaxMaxOutput}
  \cup {[require_confirmation |-> FALSE], [max_output |-> 1, timeout |-> 45]}

\* "api" sections a configuration file can supply
ApiSections == {[timeout |-> 5], [ollama_endpoint |-> "http://localhost:11434/api/chat"]}

ConfigFiles ==
  {[kind |-> "absent", data |-> <<>>], [kind |-> "unparsable", data |-> <<>>]}
  \cup {[kind |-> "dict", data |-> [api |-> a]] : a \in ApiSections}
  \cup {[kind |-> "dict", data |-> [context |-> c]] : c \in ContextSections}
  \cup {[kind |-> "dict", data |-> [security |-> s]] : s \in SecuritySections}
  \cup {[kind |-> "dict", data |-> [context |-> c, security |-> s]] :
          c \in ContextSections, s \in SecuritySections}

\* what the user types (main() strips the line and skips the empty one)
UserInputs ==
  { <<"h", "e", "l", "l", "o">>, <<"T", "o", "g", "g", "l", "e", " ", "S", "a", "f", "e", "t", "y">>, <<"s", "y", "s", "t", "e", "m", " ", "i", "n", "f", "o", "r", "m", "a", "t", "i", "o", "n">>, <<"c", "o", "n", "v", "e", "r", "s", "a", "t", "i", "o", "n", " ", "h", "i", "s", "t", "o", "r", "y">>, <<"h", "o", "w", " ", "d", "o", " ", "I", " ", "e", "x", "i", "t", " ", "v", "i", "m">> }

\* what the model request yields: a reply with a content, or a failure with
\* the text of its exception
ModelReplies ==
  {[kind |-> "fail", content |-> <<"C", "o", "n", "n", "e", "c", "t", "i", "o", "n", " ", "r", "e", "f", "u", "s", "e", "d">>]} \cup
  {[kind |-> "ok", content |-> c] :
     c \in { <<"H", "i">>, <<" ", "BQ", "BQ", "BQ", "b", "a", "s", "h", "\n", "e", "c", "h", "o", " ", "h", "i", "\n", "BQ", "BQ", "BQ", "\n">>, <<"$", " ", "R", "M", " ", " ", "-", "r", "f", " ", "/">>, <<"R", "u", "n", ":", "\n", "$", " ", "l", "s">>, <<"BQ", "BQ", "BQ", "b", "a", "s", "h", "\n", " ", "\n", "BQ", "BQ", "BQ">> }}

\* what input() yields at the confirmation prompt
Asks ==
  {[kind |-> "line", text |-> t] : t \in { <<"y">>, <<" ", "Y", "\t">>, <<"y", "e", "s">>, <<>>, <<"n">> }}
  \cup {[kind |-> "EOFError", text |-> <<>>], [kind |-> "KeyboardInterrupt", text |-> <<>>]}

OutputChars == <<"h", "i", "\n">>

\* a text of n characters a process can write
output_text(n) == [i \in 1..n |-> OutputChars[((i - 1) % Len(OutputChars)) + 1]]

Completed(out, err, rc) ==
  [kind |-> "completed", stdout |-> out, stderr |-> err, returncode |-> rc, message |-> <<>>]

\* what subprocess.run yields in a session: a completed process, a timeout or a spawn error
Procs ==
  { Completed(output_text(MaxOutputLen), <<>>, 0), Completed(<<>>, <<"e">>, 2),
    [kind |-> "TimeoutExpired", stdout |-> <<>>, stderr |-> <<>>, returncode |-> 0, message |-> <<>>],
    [kind |-> "OSError", stdout |-> <<>>, stderr |-> <<>>, returncode |-> 0, message |-> <<"[", "E", "r", "r", "n", "o", " ", "1", "2", "]", " ", "C", "a", "n", "n", "o", "t", " ", "a", "l", "l", "o", "c", "a", "t", "e", " ", "m", "e", "m", "o", "r", "y">>] }

(***************************************************************************)
(* State.                                                                  *)
(***************************************************************************)
VARIABLES
  context,        \* self.context: the sequence of turns
  safety_checks,  \* self.safety_checks
  config,         \* self.config
  session,        \* user_name, platform, is_wsl, is_root, session_start
  pc,             \* where the current turn is: "idle", "generate_response", "confirm", "subprocess"
  user_input,     \* handle_query: its argument
  reply,          \* _generate_response: how the model request ended, "none", "ok" or "fail"
  response,       \* handle_query: the model's text
  command,        \* handle_query: the extracted command
  ret,            \* what the last call of handle_query returned or raised
  gate,           \* the last call of _is_safe: its argument, the prompt, its result
  run,            \* the last call of _execute_command: the spawn, its result
  turns,          \* number of calls of handle_query so far
  config_file,    \* ~/.kali_assistant.json as _load_config found it
  log,            \* the records written to ~/kali_assistant.log, in order
  spawns,         \* number of subprocesses spawned so far
  appended        \* the turns appended since the current call began, in order

vars ==
  <<context, safety_checks, config, session, pc, user_input, reply, response, command, ret, gate, run, turns,
    config_file, log, spawns, appended>>

NoAsk == [kind |-> "none", text |-> <<>>]

NoProc == [kind |-> "none", stdout |-> <<>>, stderr |-> <<>>, returncode |-> 0, message |-> <<>>]

NoGate == [called |-> FALSE, command |-> <<>>, asked |-> FALSE, answer |-> NoAsk, result |-> "none"]

NoRun ==
  [status |-> "none", command |-> <<>>, spawned |-> FALSE, proc |-> NoProc, output |-> <<>>, returncode |-> 0]

NoReturn == [kind |-> "none", text |-> <<>>]

Pending == [kind |-> "pending", text |-> <<>>]

Returned(text) == [kind |-> "text", text |-> text]

\* a fault that leaves the call: its class name
Raised(fault) == [kind |-> fault, text |-> <<>>]

\* the state after KaliAssistant()
\* _load_config reports an unparsable file with logging.error before
\* _init_logging runs; that call installs the default console handler, so
\* the later basicConfig(filename=...) is without effect and no record
\* reaches the log file in that session
log_persisted(file) == file.kind # "unparsable"

\* logging.info / logging.error: the log after one more record
log_write(records, file, level, message) ==
  IF log_persisted(file) THEN Append(records, [level |-> level, message |-> message]) ELSE records

Init ==
  /\ config_file \in ConfigFiles
  /\ config = load_config(config_file)
  /\ session \in Sessions
  /\ log = log_write(<<>>, config_file, "INFO", <<"S", "e", "s", "s", "i", "o", "n", " ", "s", "t", "a", "r", "t", "e", "d", " ", "f", "o", "r", " ", "u", "s", "e", "r", ":", " ">> \o session.user_name)
  /\ spawns = 0
  /\ appended = <<>>
  /\ context = <<system_turn(session)>>
  /\ safety_checks = TRUE
  /\ pc = "idle"
  /\ user_input = <<>>
  /\ reply = "none"
  /\ response = <<>>
  /\ command = <<>>
  /\ ret = NoReturn
  /\ gate = NoGate
  /\ run = NoRun
  /\ turns = 0

(***************************************************************************)
(* handle_query, in the steps between its blocking calls.                  *)
(***************************************************************************)
\* the conversation, the turns appended in this call and the log, as one
\* value that the steps of a call pass on
Heap == [context |-> context, appended |-> appended, log |-> log]

\* self._add_to_history(role, content) on a heap
append_turn(h, role, content) ==
  LET a == add_to_history(h.context, config, role, content)
  IN  [context |-> a.context, appended |-> Append(h.appended, [role |-> role, content |-> content]),
       log |-> h.log, raised |-> a.raised]

\* logging.info(message) / logging.error(message) on a heap
log_record(h, level, message) ==
  [context |-> h.context, appended |-> h.appended, log |-> log_write(h.log, config_file, level, message)]

Keep(h) == context' = h.context /\ appended' = h.appended /\ log' = h.log

\* handle_query returns (or raises) r with the heap h
Return(h, r) == Keep(h) /\ ret' = r /\ pc' = "idle" /\ UNCHANGED spawns

\* the record that handle_query logs for a command
command_result(cmd, result) ==
  <<"C", "o", "m", "m", "a", "n", "d", " ", "e", "x", "e", "c", "u", "t", "e", "d", " ", "(", "e", "x", "i", "t", "=">> \o int_str(result.returncode) \o <<")", ":", " ">> \o cmd \o <<"\n", "O", "u", "t", "p", "u", "t", ":", "\n">> \o result.output

\* lines 235-248: the result of _execute_command is logged and folded back
FoldBack(h, resp, cmd, result, spawned, proc) ==
  LET logged == log_record(h, "INFO", command_result(cmd, result))
      a == append_turn(logged, "system", follow_up(cmd, result))
  IN  /\ Return(a, IF a.raised THEN Raised("KeyError")
                   ELSE Returned(resp \o summary(cmd, result.returncode)))
      /\ run' = [status |-> "returned", command |-> cmd, spawned |-> spawned, proc |-> proc,
                 output |-> result.output, returncode |-> result.returncode]

\* variant: the refusal is folded back before the fault leaves
Escape_records_refusal(h, cmd, fault) ==
  /\ Return(append_turn(h, "system", follow_up(cmd, Blocked)), Raised(fault))
  /\ run' = [NoRun EXCEPT !.status = "raised", !.command = cmd]

\* variant: the prompt is shown again after a fault
Escape_asks_again(h, cmd, fault) ==
  /\ Keep(h) /\ ret' = Pending /\ pc' = "confirm" /\ UNCHANGED spawns
  /\ run' = [NoRun EXCEPT !.status = "gate", !.command = cmd]

\* _execute_command raises out of handle_query
Escape(h, cmd, fault) ==
  /\ Return(h, Raised(fault))
  /\ run' = [NoRun EXCEPT !.status = "raised", !.command = cmd]

\* lines 147-155: subprocess.run is called
StartRun(h, resp, cmd) ==
  IF can_spawn(config)
  THEN /\ Keep(h)
       /\ ret' = Pending
       /\ pc' = "subprocess"
       /\ spawns' = spawns + 1
       /\ run' = [NoRun EXCEPT !.status = "running", !.command = cmd, !.spawned = TRUE]
  ELSE FoldBack(h, resp, cmd, NoTimeoutKey, FALSE, NoProc)

\* lines 202-228: the user turn is appended and the special requests are served
handle_query(text) ==
  /\ pc = "idle"
  /\ turns < MaxTurns
  /\ turns' = turns + 1
  /\ user_input' = text
  /\ reply' = "none"
  /\ response' = <<>>
  /\ command' = <<>>
  /\ gate' = NoGate
  /\ run' = NoRun
  /\ UNCHANGED <<config, session, config_file>>
  /\ LET a == append_turn([Heap EXCEPT !.appended = <<>>], "user", text)
         k == intent(text)
     IN  IF a.raised
         THEN Return(a, Raised("KeyError")) /\ UNCHANGED safety_checks
         ELSE IF k = "toggle"
         THEN /\ safety_checks' = ~safety_checks
              /\ Return(a, Returned(toggle_text(~safety_checks)))
         ELSE IF k = "info"
         THEN Return(a, Returned(system_info_text(session, a.context))) /\ UNCHANGED safety_checks
         ELSE IF k = "history"
         THEN Return(a, Returned(history_text(a.context))) /\ UNCHANGED safety_checks
         ELSE IF k = "exit"
         THEN Return(a, Returned(ExitRequest)) /\ UNCHANGED safety_checks
         ELSE Keep(a) /\ ret' = Pending /\ pc' = "generate_response"
              /\ UNCHANGED <<safety_checks, spawns>>

\* lines 228-234 and 138-145: the model request ends, the assistant turn is
\* appended, the command is extracted and _execute_command runs up to the
\* prompt or the spawn
generate_response(outcome) ==
  /\ pc = "generate_response"
  /\ UNCHANGED <<safety_checks, config, session, user_input, turns, config_file>>
  /\ LET got == request(config, outcome)
         text == generate_text(got)
         logged == IF got.kind = "ok" THEN Heap
                   ELSE log_record(Heap, "ERROR", <<"A", "P", "I", " ", "e", "r", "r", "o", "r", ":", " ">> \o got.content)
         a == append_turn(logged, "assistant", text)
         c == extract_command(text)
         entry == execute_entry(safety_checks, config, c.text)
     IN  /\ reply' = got.kind
         /\ response' = text
         /\ command' = c.text
         /\ IF a.raised
            THEN Return(a, Raised("KeyError")) /\ UNCHANGED <<gate, run>>
            ELSE IF c.none \/ c.text = <<>>
            THEN Return(a, Returned(text)) /\ UNCHANGED <<gate, run>>
            ELSE IF entry = "blocked"
            THEN /\ gate' = [NoGate EXCEPT !.called = TRUE, !.command = c.text, !.result = "False"]
                 /\ FoldBack(a, text, c.text, Blocked, FALSE, NoProc)
            ELSE IF entry = "ask"
            THEN /\ gate' = [NoGate EXCEPT !.called = TRUE, !.command = c.text, !.asked = TRUE, !.result = "pending"]
                 /\ run' = [NoRun EXCEPT !.status = "gate", !.command = c.text]
                 /\ Keep(a) /\ ret' = Pending /\ pc' = "confirm" /\ UNCHANGED spawns
            ELSE IF entry = "run"
            THEN /\ gate' = IF safety_checks
                            THEN [NoGate EXCEPT !.called = TRUE, !.command = c.text, !.result = "True"]
                            ELSE NoGate
                 /\ StartRun(a, text, c.text)
            ELSE /\ gate' = [NoGate EXCEPT !.called = TRUE, !.command = c.text, !.result = entry]
                 /\ Escape(a, c.text, entry)

\* lines 183-184 and 144-155: input() returns or raises at the prompt
confirm(ask) ==
  /\ pc = "confirm"
  /\ UNCHANGED <<safety_checks, config, session, user_input, reply, response, command, turns, config_file>>
  /\ LET v == is_safe_answer(ask)
     IN  /\ gate' = [gate EXCEPT !.answer = ask, !.result = v]
         /\ IF v = "True" THEN StartRun(Heap, response, command)
            ELSE IF v = "False" THEN FoldBack(Heap, response, command, Blocked, FALSE, NoProc)
            ELSE Escape(Heap, command, v)

\* lines 157-166 and 235-248: subprocess.run returns or raises
subprocess_run(proc) ==
  /\ pc = "subprocess"
  /\ UNCHANGED <<safety_checks, config, session, user_input, reply, response, command, gate, turns, config_file>>
  /\ FoldBack(Heap, response, command, run_result(config, proc), TRUE, proc)

(***************************************************************************)
(* Direct calls of _is_safe and _execute_command on the constructed        *)
(* object, as a unit test makes them, over wider sets of arguments.        *)
(***************************************************************************)
\* commands that match a danger pattern (one or more per pattern)
DangerousCommands ==
  { <<"r", "m", " ", "-", "r", "f", " ", "/">>, <<"R", "M", " ", " ", "-", "r", "f", " ", "/">>, <<"s", "u", "d", "o", " ", "r", "m", "\t", "-", "R", "F", "\n", "/", "t", "m", "p">>, <<"d", "d", " ", "i", "f", "=", "/", "d", "e", "v", "/", "z", "e", "r", "o", " ", "o", "f", "=", "x">>, <<"e", "c", "h", "o", " ", "x", " ", ">", "/", "d", "e", "v", "/", "s", "d", "a">>,
    <<"C", "h", "m", "o", "d", " ", " ", "7", "7", "7", " ", "f">>, <<":", "(", ")", "{", ":", "|", ":", "&", ";", "}", ";", ":">>, <<"m", "v", " ", "/", " ", "/", "t", "m", "p">>, <<"m", "v", " ", "/", "t", "m", "p", "/", "a", " ", "b">>, <<"F", "D", "I", "S", "K", " ", "/", "d", "e", "v", "/", "s", "d", "a">>, <<"f", "o", "r", "m", "a", "t", " ", "c">> }

\* commands that match none
SafeCommands ==
  { <<"l", "s">>, <<"e", "c", "h", "o", " ", "h", "i">>, <<"r", "m", " ", "-", "r", " ", "/">>, <<"r", "m", " ", "-", "r", "f">>, <<"c", "h", "m", "o", "d", " ", "7", "7", "7">>, <<"c", "a", "t", " ", "i", "n", "f", "o", "r", "m", "a", "t", "i", "o", "n">>, <<":", "(", ")", "{", " ", ":", "|", ":", "&", " ", "}", ";", ":">> }

GateCommands == DangerousCommands \cup SafeCommands

\* the record of a call of _is_safe(command)
gate_call(cfg, cmd, ask) ==
  LET g == is_safe(cfg, cmd, ask)
  IN  [called |-> TRUE, command |-> cmd, asked |-> g.asked,
       answer |-> IF g.asked THEN ask ELSE NoAsk, result |-> g.result]

\* _is_safe(cmd) is called on a fresh object and input() yields ask if the
\* prompt is shown
call_is_safe(cmd, ask) ==
  /\ pc = "idle"
  /\ ~gate.called
  /\ gate' = gate_call(config, cmd, ask)
  /\ UNCHANGED <<context, safety_checks, config, session, pc, user_input, reply, response, command, ret, run, turns,
                 config_file, log, spawns, appended>>

NextGate == \E cmd \in GateCommands, ask \in Asks : call_is_safe(cmd, ask)

SpecGate == Init /\ [][NextGate]_vars

\* what subprocess.run yields to a direct call: stdout and stderr of every
\* length up to MaxOutputLen together, two exit codes, a timeout, an error
ExecProcs ==
  {Completed(output_text(n1), [i \in 1..n2 |-> "e"], rc) :
     n1 \in 0..MaxOutputLen, n2 \in 0..MaxOutputLen, rc \in {0, 2}}
  \cup {p \in Procs : p.kind # "completed"}

\* _execute_command as a whole: how far it got, and its result
execute_command(safety, cfg, cmd, ask, proc) ==
  LET e == execute_entry(safety, cfg, cmd)
      v == IF e = "ask" THEN is_safe_answer(ask) ELSE "none"
      returned(result, spawned, p) ==
        [status |-> "returned", command |-> cmd, spawned |-> spawned, proc |-> p,
         output |-> result.output, returncode |-> result.returncode]
  IN  IF e = "empty" THEN returned(NoCommand, FALSE, NoProc)
      ELSE IF e = "blocked" \/ (e = "ask" /\ v = "False") THEN returned(Blocked, FALSE, NoProc)
      ELSE IF e = "run" \/ (e = "ask" /\ v = "True")
      THEN IF can_spawn(cfg) THEN returned(run_result(cfg, proc), TRUE, proc)
           ELSE returned(NoTimeoutKey, FALSE, NoProc)
      ELSE [NoRun EXCEPT !.status = "raised", !.command = cmd]

\* _execute_command(cmd) is called on a fresh object
call_execute_command(cmd, ask, proc) ==
  /\ pc = "idle"
  /\ run.status = "none"
  /\ Len(proc.stdout) + Len(proc.stderr) <= MaxOutputLen
  /\ run' = execute_command(safety_checks, config, cmd, ask, proc)
  /\ gate' = IF cmd = <<>> \/ ~safety_checks THEN NoGate ELSE gate_call(config, cmd, ask)
  /\ spawns' = IF run'.spawned THEN spawns + 1 ELSE spawns
  /\ UNCHANGED <<context, safety_checks, config, session, pc, user_input, reply, response, command, ret, turns,
                 config_file, log, appended>>

ExecutorCommands == { <<>>, <<"e", "c", "h", "o", " ", "h", "i">>, <<"r", "m", " ", "-", "r", "f", " ", "/">> }

ExecutorAsks == {a \in Asks : a.text \in { <<"y">>, <<"n">> } \/ a.kind = "EOFError"}

NextExecutor ==
  \E cmd \in ExecutorCommands, ask \in ExecutorAsks, proc \in ExecProcs : call_execute_command(cmd, ask, proc)

SpecExecutor == Init /\ [][NextExecutor]_vars

MaxAppends == 3

\* the turns a direct call of _add_to_history appends
AppendedTurns == {[role |-> r, content |-> c] : r \in {"user", "assistant", "system"}, c \in { <<"a">>, <<"b">> }}

\* _add_to_history(role, content) is called directly; the appended turns
\* accumulate in appended
call_add_to_history(turn) ==
  /\ pc = "idle"
  /\ turns = 0
  /\ Len(appended) < MaxAppends
  /\ Keep(append_turn(Heap, turn.role, turn.content))
  /\ UNCHANGED <<safety_checks, config, session, pc, user_input, reply, response, command, ret, gate, run, turns,
                 config_file, spawns>>

NextHistory == \E turn \in AppendedTurns : call_add_to_history(turn)

SpecHistory == Init /\ [][NextHistory]_vars

Next ==
  \/ \E text \in UserInputs : handle_query(text)
  \/ \E outcome \in ModelReplies : generate_response(outcome)
  \/ \E ask \in Asks : confirm(ask)
  \/ \E proc \in Procs : subprocess_run(proc)

Spec == Init /\ [][Next]_vars

\* the model request and the subprocess are bounded by their timeouts
\* (lines 130 and 154) and the human answers or interrupts the prompt: a
\* call that waits for one of them goes on
FairSpec ==
  /\ Spec
  /\ WF_vars(\E outcome \in ModelReplies : generate_response(outcome))
  /\ WF_vars(\E ask \in Asks : confirm(ask))
  /\ WF_vars(\E proc \in Procs : subprocess_run(proc))

(***************************************************************************)
(* Properties.                                                             *)
(***************************************************************************)
\* C1 (as stated): in every reachable state of a session, toggles included,
\* a command that matches a danger pattern is never spawned.
C1_DangerNeverSpawned == run.spawned => run.command \notin DangerousCommands

\* C1 (amended): while safety_checks is enabled, a command that matches a
\* danger pattern is never spawned.
C1_DangerNeverSpawnedWhileEnabled ==
  (safety_checks /\ run.spawned) => run.command \notin DangerousCommands

C1_Witness ==
  /\ pc = "idle" /\ safety_checks /\ turns = MaxTurns
  /\ run.status = "returned" /\ run.command \in DangerousCommands /\ ~run.spawned

\* C2: for a command that matches a danger pattern _is_safe returns False,
\* whatever require_confirmation and the answer are, and the prompt is not shown.
C2_DangerVetoed ==
  (gate.called /\ gate.command \in DangerousCommands) => (gate.result = "False" /\ ~gate.asked)

C2_Witness ==
  /\ gate.called /\ gate.command \in DangerousCommands /\ gate.result = "False"
  /\ "require_confirmation" \in DOMAIN config.security /\ ~config.security.require_confirmation

\* C3: for a command that matches no danger pattern, with
\* require_confirmation true, the prompt is shown and _is_safe returns True
\* exactly when the answer is a "y" or "Y" surrounded by whitespace only.
C3_ConfirmedIffY ==
  (/\ gate.called /\ gate.command \in SafeCommands
   /\ "require_confirmation" \in DOMAIN config.security /\ config.security.require_confirmation)
  => /\ gate.asked
     /\ gate.answer.kind = "line" =>
          /\ gate.result \in {"True", "False"}
          /\ gate.result = "True" <=>
               \E i \in 1..Len(gate.answer.text) :
                  /\ gate.answer.text[i] \in {"y", "Y"}
                  /\ \A j \in (1..Len(gate.answer.text)) \ {i} : gate.answer.text[j] \in Whitespace

C3_Witness ==
  /\ gate.asked /\ gate.command \in SafeCommands /\ gate.answer.text = <<" ", "Y", "\t">> /\ gate.result = "True"

\* C4: for a command that matches no danger pattern, with
\* require_confirmation false, _is_safe returns True and the prompt is not shown.
C4_AllowedWithoutPrompt ==
  (/\ gate.called /\ gate.command \in SafeCommands
   /\ "require_confirmation" \in DOMAIN config.security /\ ~config.security.require_confirmation)
  => (gate.result = "True" /\ ~gate.asked)

C4_Witness ==
  /\ gate.called /\ gate.command \in SafeCommands /\ gate.result = "True" /\ ~gate.asked
  /\ "require_confirmation" \in DOMAIN config.security /\ ~config.security.require_confirmation

\* C5: for every memory_size >= 0 the conversation never holds more than
\* memory_size + 1 turns.
C5_LengthBounded ==
  "memory_size" \in DOMAIN config.context => Len(context) <= config.context.memory_size + 1

\* C6: the turn at index 0 is the system turn of the construction, and it
\* appears at no later position.
C6_SystemTurnPinned ==
  /\ context[1] = system_turn(session)
  /\ \A i \in 2..Len(context) : context[i] # system_turn(session)

\* C7: handle_query returns a text whenever it ends; no fault leaves it.
C7_AlwaysReturnsText == (pc = "idle" /\ turns > 0) => ret.kind = "text"

\* C8 (as stated): when the model request fails, handle_query returns the
\* fallback text, the conversation holds the user's turn followed by the
\* fallback as assistant turn, and no command is gated or executed.
C8_FallbackAfterUserTurn ==
  (pc = "idle" /\ reply = "fail")
  => /\ ret = Returned(FallbackText)
     /\ \E i \in 1..(Len(context) - 1) :
          /\ context[i] = [role |-> "user", content |-> user_input]
          /\ context[i + 1] = [role |-> "assistant", content |-> FallbackText]
     /\ ~gate.called /\ run.status = "none"

\* C8 (amended): when the model request fails, handle_query returns the
\* fallback text, the conversation ends with the fallback as assistant
\* turn, preceded by the user's turn unless memory_size is 1 (then the trim
\* leaves the system turn and the fallback turn), and no command is gated
\* or executed.
C8_FallbackLastTurn ==
  (pc = "idle" /\ reply = "fail")
  => /\ ret = Returned(FallbackText)
     /\ context[Len(context)] = [role |-> "assistant", content |-> FallbackText]
     /\ IF config.context.memory_size = 1
        THEN context = <<system_turn(session), [role |-> "assistant", content |-> FallbackText]>>
        ELSE Len(context) >= 3 /\ context[Len(context) - 1] = [role |-> "user", content |-> user_input]
     /\ ~gate.called /\ run.status = "none"

C8_Witness ==
  /\ pc = "idle" /\ reply = "fail" /\ ret = Returned(FallbackText) /\ turns = MaxTurns
  /\ config.context.memory_size = 2

\* C9: when the process completes, the returned text is at most max_output
\* plus the marker long; it is the first max_output characters of the merged
\* output followed by the marker when the output is longer than max_output,
\* and the merged output itself otherwise.
C9_OutputBounded ==
  (/\ run.status = "returned" /\ run.spawned /\ run.proc.kind = "completed"
   /\ "max_output" \in DOMAIN config.security)
  => LET out == run.proc.stdout \o run.proc.stderr
         m == config.security.max_output
     IN  /\ Len(run.output) <= m + Len(<<"\n", "\n", "[", "O", "U", "T", "P", "U", "T", " ", "T", "R", "U", "N", "C", "A", "T", "E", "D", "]">>)
         /\ IF Len(out) > m
            THEN run.output = [i \in 1..m |-> out[i]] \o <<"\n", "\n", "[", "O", "U", "T", "P", "U", "T", " ", "T", "R", "U", "N", "C", "A", "T", "E", "D", "]">>
            ELSE run.output = out

C9_Witness ==
  /\ run.status = "returned" /\ run.spawned /\ run.proc.kind = "completed"
  /\ "max_output" \in DOMAIN config.security
  /\ Len(run.proc.stdout) + Len(run.proc.stderr) = config.security.max_output
  /\ config.security.max_output > 0
  /\ run.output = run.proc.stdout \o run.proc.stderr

\* C10 (as stated): when the gate denies the command, nothing is spawned and
\* the response holds the refusal message and no exit status.
C10_RefusalWithoutExitStatus ==
  (pc = "idle" /\ gate.called /\ gate.result = "False")
  => /\ ~run.spawned
     /\ contains(ret.text, <<"C", "o", "m", "m", "a", "n", "d", " ", "b", "l", "o", "c", "k", "e", "d", " ", "b", "y", " ", "s", "a", "f", "e", "t", "y", " ", "s", "y", "s", "t", "e", "m">>)
     /\ ~contains(ret.text, <<"(", "e", "x", "i", "t", " ">>)

\* C10 (amended): when the gate denies the command, nothing is spawned, the
\* executor's result is the refusal message with exit status 1, recorded in
\* the system turn appended last, and the response is the model's text
\* followed by the failure summary with exit status 1.
C10_RefusalAsFailure ==
  (pc = "idle" /\ gate.called /\ gate.result = "False")
  => /\ ~run.spawned
     /\ run.status = "returned"
     /\ run.output = <<"C", "o", "m", "m", "a", "n", "d", " ", "b", "l", "o", "c", "k", "e", "d", " ", "b", "y", " ", "s", "a", "f", "e", "t", "y", " ", "s", "y", "s", "t", "e", "m">>
     /\ run.returncode = 1
     /\ context[Len(context)] =
          [role |-> "system",
           content |-> <<"C", "o", "m", "m", "a", "n", "d", " ", "e", "x", "e", "c", "u", "t", "e", "d", ":", "\n", "BQ", "BQ", "BQ", "b", "a", "s", "h", "\n">> \o command
                       \o <<"\n", "BQ", "BQ", "BQ", "\n", "E", "x", "i", "t", " ", "c", "o", "d", "e", ":", " ", "1", "\n", "O", "u", "t", "p", "u", "t", ":", "\n", "C", "o", "m", "m", "a", "n", "d", " ", "b", "l", "o", "c", "k", "e", "d", " ", "b", "y", " ", "s", "a", "f", "e", "t", "y", " ", "s", "y", "s", "t", "e", "m">>]
     /\ ret = Returned(response \o <<"\n", "\n", "C", "o", "m", "m", "a", "n", "d", " ", "f", "a", "i", "l", "e", "d", " ", "(", "e", "x", "i", "t", " ", "1", ")", ":", "\n", "BQ", "BQ", "BQ", "b", "a", "s", "h", "\n">> \o command \o <<"\n", "BQ", "BQ", "BQ">>)

C10_Witness ==
  /\ pc = "idle" /\ gate.called /\ gate.asked /\ gate.result = "False" /\ gate.answer.text = <<"y", "e", "s">>
  /\ run.status = "returned" /\ ~run.spawned

\* C11: a call whose input holds a control phrase appends the user turn and
\* nothing else, returns a canned text without a model request, a gate call
\* or an execution, and returns EXIT_REQUEST when the phrase is exit or quit.
C11_SpecialRequestsServed ==
  (/\ pc = "idle" /\ turns > 0
   /\ user_input \in { <<"T", "o", "g", "g", "l", "e", " ", "S", "a", "f", "e", "t", "y">>, <<"s", "y", "s", "t", "e", "m", " ", "i", "n", "f", "o", "r", "m", "a", "t", "i", "o", "n">>, <<"c", "o", "n", "v", "e", "r", "s", "a", "t", "i", "o", "n", " ", "h", "i", "s", "t", "o", "r", "y">>, <<"h", "o", "w", " ", "d", "o", " ", "I", " ", "e", "x", "i", "t", " ", "v", "i", "m">> })
  => /\ ret.kind = "text"
     /\ appended = <<[role |-> "user", content |-> user_input]>>
     /\ context[Len(context)] = [role |-> "user", content |-> user_input]
     /\ reply = "none" /\ ~gate.called /\ run.status = "none"
     /\ user_input = <<"h", "o", "w", " ", "d", "o", " ", "I", " ", "e", "x", "i", "t", " ", "v", "i", "m">> => ret.text = <<"E", "X", "I", "T", "_", "R", "E", "Q", "U", "E", "S", "T">>
     /\ user_input # <<"h", "o", "w", " ", "d", "o", " ", "I", " ", "e", "x", "i", "t", " ", "v", "i", "m">> => ret.text # <<"E", "X", "I", "T", "_", "R", "E", "Q", "U", "E", "S", "T">>

\* C12 (as stated): after an interrupt at the confirmation prompt the user's
\* turn is in the conversation, nothing was spawned, no command result was
\* appended and the next user turn is accepted.
C12_InterruptKeepsUserTurn ==
  (pc = "idle" /\ gate.asked /\ gate.result = "KeyboardInterrupt")
  => /\ \E i \in 1..Len(context) : context[i] = [role |-> "user", content |-> user_input]
     /\ ~run.spawned
     /\ \A i \in 1..Len(appended) : appended[i].role # "system"
     /\ turns < MaxTurns => ENABLED (\E text \in UserInputs : handle_query(text))

\* C12 (amended): after an interrupt at the confirmation prompt the
\* conversation ends with the assistant turn, preceded by the user's turn
\* unless memory_size is 1 (then it is the system turn and the assistant
\* turn); nothing was spawned, no command result was appended and the next
\* user turn is accepted.
C12_InterruptAbandonsTurn ==
  (pc = "idle" /\ gate.asked /\ gate.result = "KeyboardInterrupt")
  => /\ context[Len(context)] = [role |-> "assistant", content |-> response]
     /\ IF config.context.memory_size = 1
        THEN context = <<system_turn(session), [role |-> "assistant", content |-> response]>>
        ELSE Len(context) >= 3 /\ context[Len(context) - 1] = [role |-> "user", content |-> user_input]
     /\ ~run.spawned
     /\ appended = <<[role |-> "user", content |-> user_input], [role |-> "assistant", content |-> response]>>
     /\ turns < MaxTurns => ENABLED (\E text \in UserInputs : handle_query(text))

C12_Witness ==
  /\ pc = "idle" /\ gate.asked /\ gate.result = "KeyboardInterrupt" /\ turns = 1
  /\ config.context.memory_size = 2 /\ Len(context) = 3

\* C13: between calls, the log holds one record per spawned subprocess and
\* no record for a command that was not spawned.
C13_OneRecordPerExecution ==
  pc = "idle" =>
    Cardinality({i \in 1..Len(log) : startswith(log[i].message, <<"C", "o", "m", "m", "a", "n", "d", " ", "e", "x", "e", "c", "u", "t", "e", "d">>)}) = spawns

\* C14: whatever the configuration file holds, the loaded configuration
\* defines api.timeout, security.require_confirmation, security.max_output,
\* security.timeout and context.memory_size, each with the file's value when
\* the file supplies it and the default otherwise.
C14_ConsumedKeysDefined ==
  \A k \in {<<"api", "timeout">>, <<"security", "require_confirmation">>, <<"security", "max_output">>,
            <<"security", "timeout">>, <<"context", "memory_size">>} :
     /\ k[1] \in DOMAIN config
     /\ k[2] \in DOMAIN config[k[1]]
     /\ config[k[1]][k[2]] =
          IF /\ config_file.kind = "dict"
             /\ k[1] \in DOMAIN config_file.data
             /\ k[2] \in DOMAIN config_file.data[k[1]]
          THEN config_file.data[k[1]][k[2]]
          ELSE default_config[k[1]][k[2]]

\* C15: an append that makes the conversation longer than memory_size + 1
\* leaves the system turn followed by the last memory_size other turns, in
\* their order.
C15_TrimKeepsNewest ==
  [][(/\ Len(appended') = Len(appended) + 1
      /\ "memory_size" \in DOMAIN config.context
      /\ Len(context) + 1 > config.context.memory_size + 1)
     => LET m == config.context.memory_size
            IsOther(t) == t # system_turn(session)
            rest == SelectSeq(context \o <<appended'[Len(appended')]>>, IsOther)
        IN  context' = <<system_turn(session)>> \o [i \in 1..m |-> rest[Len(rest) - m + i]]]_vars

\* C16: _execute_command maps each outcome to its result: an empty command
\* to exit code 1 without a spawn, a timeout to "Command timed out" with a
\* failure exit code, any other exception of the run (a spawn error, or the
\* lookup of an absent timeout or max_output) to its description with exit
\* code 1, and a completed process to its own exit code.
C16_OutcomeMapped ==
  run.status = "returned" =>
    /\ run.command = <<>> => (~run.spawned /\ run.returncode = 1 /\ run.output = <<"N", "o", " ", "c", "o", "m", "m", "a", "n", "d", " ", "t", "o", " ", "e", "x", "e", "c", "u", "t", "e">>)
    /\ (run.command # <<>> /\ ~run.spawned /\ (~safety_checks \/ gate.result = "True"))
         => (run.output = <<"E", "x", "e", "c", "u", "t", "i", "o", "n", " ", "e", "r", "r", "o", "r", ":", " ", "'", "t", "i", "m", "e", "o", "u", "t", "'">> /\ run.returncode = 1)
    /\ (run.spawned /\ run.proc.kind = "TimeoutExpired")
         => (run.output = <<"C", "o", "m", "m", "a", "n", "d", " ", "t", "i", "m", "e", "d", " ", "o", "u", "t">> /\ run.returncode # 0)
    /\ (run.spawned /\ run.proc.kind = "OSError")
         => (run.output = <<"E", "x", "e", "c", "u", "t", "i", "o", "n", " ", "e", "r", "r", "o", "r", ":", " ">> \o run.proc.message /\ run.returncode = 1)
    /\ (run.spawned /\ run.proc.kind = "completed")
         => IF "max_output" \in DOMAIN config.security
            THEN run.returncode = run.proc.returncode
            ELSE run.output = <<"E", "x", "e", "c", "u", "t", "i", "o", "n", " ", "e", "r", "r", "o", "r", ":", " ", "'", "m", "a", "x", "_", "o", "u", "t", "p", "u", "t", "'">> /\ run.returncode = 1

C16_Witness ==
  /\ run.status = "returned" /\ run.spawned /\ run.proc.kind = "completed"
  /\ run.proc.returncode = 2 /\ run.returncode = 2 /\ run.proc.stderr # <<>>

\* C17 (as stated): a call in which a command is extracted appends the user
\* turn, the assistant turn and one turn with the command's result, in this
\* order, the last one once gate and execution are over, and the response
\* ends with the success form exactly when the exit code is 0.
C17_ThreeTurnsPerCommand ==
  /\ (\E i \in 1..Len(appended) : appended[i].role = "system") => (pc = "idle" /\ run.status = "returned")
  /\ (pc = "idle" /\ command # <<>>)
     => /\ Len(appended) = 3
        /\ appended[1] = [role |-> "user", content |-> user_input]
        /\ appended[2] = [role |-> "assistant", content |-> response]
        /\ appended[3].role = "system"
        /\ ret = Returned(response \o
                   (IF run.returncode = 0
                    THEN <<"\n", "\n", "C", "o", "m", "m", "a", "n", "d", " ", "e", "x", "e", "c", "u", "t", "e", "d", " ", "s", "u", "c", "c", "e", "s", "s", "f", "u", "l", "l", "y", ":", "\n", "BQ", "BQ", "BQ", "b", "a", "s", "h", "\n">> \o command \o <<"\n", "BQ", "BQ", "BQ">>
                    ELSE <<"\n", "\n", "C", "o", "m", "m", "a", "n", "d", " ", "f", "a", "i", "l", "e", "d", " ", "(", "e", "x", "i", "t", " ">> \o int_str(run.returncode) \o <<")", ":", "\n", "BQ", "BQ", "BQ", "b", "a", "s", "h", "\n">>
                         \o command \o <<"\n", "BQ", "BQ", "BQ">>))

\* C17 (amended): a call in which a command is extracted and
\* _execute_command returns appends the user turn, the assistant turn and
\* one turn with the command's result, in this order, the last one once gate
\* and execution are over, and the response ends with the success form
\* exactly when the exit code is 0; when the gate raises instead (the
\* prompt is interrupted or fails, or require_confirmation is absent), only
\* the user turn and the assistant turn are appended.
C17_ThreeTurnsWhenReturned ==
  /\ (\E i \in 1..Len(appended) : appended[i].role = "system") => (pc = "idle" /\ run.status = "returned")
  /\ (pc = "idle" /\ command # <<>> /\ run.status = "raised")
     => appended = <<[role |-> "user", content |-> user_input], [role |-> "assistant", content |-> response]>>
  /\ (pc = "idle" /\ command # <<>> /\ run.status # "raised")
     => /\ run.status = "returned"
        /\ Len(appended) = 3
        /\ appended[1] = [role |-> "user", content |-> user_input]
        /\ appended[2] = [role |-> "assistant", content |-> response]
        /\ appended[3].role = "system"
        /\ ret = Returned(response \o
                   (IF run.returncode = 0
                    THEN <<"\n", "\n", "C", "o", "m", "m", "a", "n", "d", " ", "e", "x", "e", "c", "u", "t", "e", "d", " ", "s", "u", "c", "c", "e", "s", "s", "f", "u", "l", "l", "y", ":", "\n", "BQ", "BQ", "BQ", "b", "a", "s", "h", "\n">> \o command \o <<"\n", "BQ", "BQ", "BQ">>
                    ELSE <<"\n", "\n", "C", "o", "m", "m", "a", "n", "d", " ", "f", "a", "i", "l", "e", "d", " ", "(", "e", "x", "i", "t", " ">> \o int_str(run.returncode) \o <<")", ":", "\n", "BQ", "BQ", "BQ", "b", "a", "s", "h", "\n">>
                         \o command \o <<"\n", "BQ", "BQ", "BQ">>))

C17_Witness ==
  /\ pc = "idle" /\ command = <<"e", "c", "h", "o", " ", "h", "i">> /\ run.status = "returned" /\ run.spawned /\ run.returncode = 0
  /\ Len(appended) = 3 /\ gate.asked

\* C18: the command is the inner text of a fenced shell block,
\* else the rest of a line that starts with "$ " wherever the line is, else
\* there is none, and then the call returns the model's text as it is, with
\* no gate call, no execution and no turn for a result.
C18_CommandFromAnyLine ==
  (pc = "idle" /\ reply = "ok")
  => LET lines == {i \in 1..Len(response) :
                     occurs_at(response, <<"$", " ">>, i) /\ (i = 1 \/ response[i - 1] = "\n")}
         fenced == contains(response, <<"BQ", "BQ", "BQ", "b", "a", "s", "h", "\n">>)
     IN  /\ response = <<"BQ", "BQ", "BQ", "b", "a", "s", "h", "\n", "e", "c", "h", "o", " ", "h", "i", "\n", "BQ", "BQ", "BQ">> => command = <<"e", "c", "h", "o", " ", "h", "i">>
         /\ (~fenced /\ lines # {}) =>
               \E i \in lines :
                  \E j \in (i + 1)..(Len(response) + 1) :
                     /\ j = Len(response) + 1 \/ response[j] = "\n"
                     /\ \A k \in (i + 2)..(j - 1) : response[k] # "\n"
                     /\ command = strip(SubSeq(response, i + 2, j - 1))
         /\ (~fenced /\ lines = {}) =>
               /\ command = <<>>
               /\ ret = Returned(response) /\ ~gate.called /\ run.status = "none"
               /\ \A i \in 1..Len(appended) : appended[i].role # "system"

\* C19: a call that waits for the model, the prompt or the subprocess ends,
\* and a call begins only when no call is in progress.
C19_TurnsEnd ==
  /\ (pc # "idle") ~> (pc = "idle")
  /\ [][turns' # turns => (pc = "idle" /\ turns' = turns + 1)]_vars

C19_Witness == pc = "subprocess" /\ turns = MaxTurns /\ gate.asked /\ gate.result = "True"

\* C20: safety_checks starts enabled; a step changes it only when it is the
\* call of a "toggle safety" input, and every such call flips it; no step
\* changes the configuration or the session metadata; while the flag is
\* disabled no command reaches the patterns or the prompt.
C20_OnlyToggleFlips ==
  /\ safety_checks = TRUE
  /\ [][/\ safety_checks' # safety_checks
             => (pc = "idle" /\ turns' = turns + 1 /\ user_input' = <<"T", "o", "g", "g", "l", "e", " ", "S", "a", "f", "e", "t", "y">>)
        /\ (turns' = turns + 1 /\ user_input' = <<"T", "o", "g", "g", "l", "e", " ", "S", "a", "f", "e", "t", "y">>)
             => (/\ safety_checks' = ~safety_checks
                 /\ ret' = Returned(IF safety_checks' THEN <<"S", "a", "f", "e", "t", "y", " ", "c", "h", "e", "c", "k", "s", " ", "h", "a", "v", "e", " ", "b", "e", "e", "n", " ", "E", "N", "A", "B", "L", "E", "D", ".">>
                                    ELSE <<"S", "a", "f", "e", "t", "y", " ", "c", "h", "e", "c", "k", "s", " ", "h", "a", "v", "e", " ", "b", "e", "e", "n", " ", "D", "I", "S", "A", "B", "L", "E", "D", ".">>))
        /\ config' = config /\ session' = session
        /\ ~safety_checks' => (~gate'.called /\ ~gate'.asked /\ pc' # "confirm")]_vars

====
